---- MODULE Spec2Model ----
(***************************************************************************)
(* DNS-Bench (src/main.py): benchmark_dns_servers followed by              *)
(* display_results, as the __main__ block runs them.                        *)
(*                                                                         *)
(* The two lookups of the resolver library (resolve_address, resolve) are  *)
(* the environment: each call either returns or raises, chosen freely.     *)
(* Response times are exact rationals (milliseconds), so that mean and     *)
(* variance are computed without rounding; the square root is kept         *)
(* symbolic.                                                               *)
(***************************************************************************)
EXTENDS Integers, Sequences, FiniteSets, TLC

VARIABLES
    servers,        \* argument: list of server addresses
    num_queries,    \* argument: number of queries per server
    pc,             \* control position
    idx,            \* position of `server` in servers (0 before the first pass)
    nameservers,    \* resolver.nameservers
    times,          \* local: samples of the current pass
    failure_count,  \* local: failures of the current pass
    dns_name,       \* local: reverse-resolved name
    q,              \* iterations of range(num_queries) started in this pass
    results,        \* the result mapping (key -> record)
    order,          \* iteration (insertion) order of the keys of results
    table,          \* rows added to the rich Table
    j,              \* entries of results.items() already rendered
    log,            \* history: outcome of each forward query of this pass
    rev_failed,     \* history: the reverse lookup of this pass raised
    aborted,        \* history: the break at line 58 was taken in this pass
    latencies       \* environment: the elapsed times a query may take (ms)

vars == << servers, num_queries, pc, idx, nameservers, times, failure_count,
           dns_name, q, results, order, table, j, log, rev_failed, aborted,
           latencies >>

----------------------------------------------------------------------------
\* Bounds of the model.

MaxServers == 2

MaxQueries == 4

\* Well-formed IP addresses and one string that is not an IP address.
IpAddresses == { "8.8.8.8", "0.0.0.0" }

Addresses == IpAddresses \cup { "dns.local" }

\* Elapsed times a successful query may take, in milliseconds: the three of
\* the statistics runs, and the single one of the whole-program runs.
Elapsed == { 10, 20, 30 }

Latency == CHOOSE t \in Elapsed : \A u \in Elapsed : u <= t

\* Names a successful reverse lookup may return.
PtrNames == { "dns.google." }

ServerLists == UNION { [1..n -> Addresses] : n \in 1..MaxServers }

----------------------------------------------------------------------------
\* Exact rational arithmetic standing for Python's float arithmetic.

RECURSIVE GCD(_, _)
GCD(a, b) == IF b = 0 THEN a ELSE GCD(b, a % b)

Abs(x) == IF x < 0 THEN -x ELSE x

\* The fraction n/d (d > 0) in lowest terms.
Frac(n, d) ==
    LET g == GCD(Abs(n), d)
    IN  [num |-> n \div g, den |-> d \div g]

FromInt(n) == [num |-> n, den |-> 1]

RAdd(a, b) == Frac(a.num * b.den + b.num * a.den, a.den * b.den)

RSub(a, b) == Frac(a.num * b.den - b.num * a.den, a.den * b.den)

RMul(a, b) == Frac(a.num * b.num, a.den * b.den)

RDivInt(a, n) == Frac(a.num, a.den * n)

RECURSIVE Sum(_)
Sum(s) == IF s = << >> THEN 0 ELSE Head(s) + Sum(Tail(s))

RECURSIVE RSum(_)
RSum(s) == IF s = << >> THEN FromInt(0) ELSE RAdd(Head(s), RSum(Tail(s)))

\* mean = sum(times) / len(times)
Mean(ts) == Frac(Sum(ts), Len(ts))

\* The variance as the sample (N-1) estimator would compute it.
SampleVariance(ts, mean) ==
    IF Len(ts) = 1 THEN FromInt(0)
    ELSE RDivInt(RSum([i \in 1..Len(ts) |->
                        RMul(RSub(FromInt(ts[i]), mean), RSub(FromInt(ts[i]), mean))]),
                 Len(ts) - 1)

\* variance = sum((x - mean) ** 2 for x in times) / len(times)
Variance(ts, mean) ==
    RDivInt(RSum([i \in 1..Len(ts) |->
                   RMul(RSub(FromInt(ts[i]), mean), RSub(FromInt(ts[i]), mean))]),
            Len(ts))

\* stdev = variance ** 0.5, kept as the square root of an exact rational.
Sqrt(r) == [sqrt_of |-> r]

----------------------------------------------------------------------------
\* benchmark_dns_servers

server == servers[idx]

\* dns.inet.is_address, as the nameservers setter applies it to each entry.
is_address(s) == s \in IpAddresses

Init ==
    /\ servers \in ServerLists
    /\ num_queries \in 1..MaxQueries
    /\ pc = "for"
    /\ idx = 0
    /\ nameservers = << >>
    /\ times = << >>
    /\ failure_count = 0
    /\ dns_name = ""
    /\ q = 0
    /\ results = << >>
    /\ order = << >>
    /\ table = << >>
    /\ j = 0
    /\ log = << >>
    /\ rev_failed = FALSE
    /\ aborted = FALSE
    /\ latencies = { Latency }

\* Lines 32-36: the next server is taken, the resolver is pointed at it and the
\* pass's locals are reset.  The nameservers setter raises ValueError for an
\* entry that is not an IP address; nothing catches it there.
StartPass ==
    /\ pc = "for"
    /\ idx < Len(servers)
    /\ idx' = idx + 1
    /\ IF is_address(servers[idx + 1])
       THEN /\ nameservers' = << servers[idx + 1] >>
            /\ times' = << >>
            /\ failure_count' = 0
            /\ q' = 0
            /\ log' = << >>
            /\ rev_failed' = FALSE
            /\ aborted' = FALSE
            /\ pc' = "reverse"
       ELSE /\ pc' = "raised"
            /\ UNCHANGED << nameservers, times, failure_count, q, log,
                            rev_failed, aborted >>
    /\ UNCHANGED << servers, num_queries, dns_name, results, order, table, j, latencies >>

\* Lines 38-41: resolve_address returns a name.
ReverseLookupOk ==
    /\ pc = "reverse"
    /\ \E n \in PtrNames : dns_name' = n
    /\ pc' = "range"
    /\ UNCHANGED << servers, num_queries, idx, nameservers, times, failure_count,
                    q, results, order, table, j, log, rev_failed, aborted, latencies >>

\* A reverse-lookup handler that forgets to count the failure.
ReverseLookupFailsUncounted ==
    /\ pc = "reverse"
    /\ dns_name' = "Unknown"
    /\ rev_failed' = TRUE
    /\ pc' = "range"
    /\ UNCHANGED << servers, num_queries, idx, nameservers, times, failure_count,
                    q, results, order, table, j, log, aborted, latencies >>

\* Lines 42-45: resolve_address raises.
ReverseLookupFails ==
    /\ pc = "reverse"
    /\ dns_name' = "Unknown"
    /\ failure_count' = failure_count + 1
    /\ rev_failed' = TRUE
    /\ pc' = "range"
    /\ UNCHANGED << servers, num_queries, idx, nameservers, times, q, results,
                    order, table, j, log, aborted, latencies >>

\* A loop over range(num_queries - 1).
RangeNextShort ==
    /\ pc = "range"
    /\ IF q < num_queries - 1
       THEN /\ q' = q + 1
            /\ pc' = "query"
       ELSE /\ q' = q
            /\ pc' = "stats"
    /\ UNCHANGED << servers, num_queries, idx, nameservers, times, failure_count,
                    dns_name, results, order, table, j, log, rev_failed, aborted,
                    latencies >>

\* Line 47: the next iteration of range(num_queries), or the end of the loop.
RangeNext ==
    /\ pc = "range"
    /\ IF q < num_queries
       THEN /\ q' = q + 1
            /\ pc' = "query"
       ELSE /\ q' = q
            /\ pc' = "stats"
    /\ UNCHANGED << servers, num_queries, idx, nameservers, times, failure_count,
                    dns_name, results, order, table, j, log, rev_failed, aborted,
                    latencies >>

\* Lines 48-52: resolve returns; the elapsed time is appended.
QueryOk ==
    /\ pc = "query"
    /\ \E elapsed \in latencies : times' = Append(times, elapsed)
    /\ log' = Append(log, TRUE)
    /\ pc' = "check"
    /\ UNCHANGED << servers, num_queries, idx, nameservers, failure_count, dns_name,
                    q, results, order, table, j, rev_failed, aborted, latencies >>

\* A failure handler that records the elapsed time of the failed query too.
QueryFailsRecordsTime ==
    /\ pc = "query"
    /\ \E elapsed \in latencies : times' = Append(times, elapsed)
    /\ failure_count' = failure_count + 1
    /\ log' = Append(log, FALSE)
    /\ pc' = "check"
    /\ UNCHANGED << servers, num_queries, idx, nameservers, dns_name, q,
                    results, order, table, j, rev_failed, aborted, latencies >>

\* Lines 53-55: resolve raises.
QueryFails ==
    /\ pc = "query"
    /\ failure_count' = failure_count + 1
    /\ log' = Append(log, FALSE)
    /\ pc' = "check"
    /\ UNCHANGED << servers, num_queries, idx, nameservers, times, dns_name, q,
                    results, order, table, j, rev_failed, aborted, latencies >>

\* An abort check with the threshold off by one (failure_count > 3).
CheckAbortLate ==
    /\ pc = "check"
    /\ IF failure_count > 3
       THEN /\ aborted' = TRUE
            /\ pc' = "stats"
       ELSE /\ aborted' = aborted
            /\ pc' = "range"
    /\ UNCHANGED << servers, num_queries, idx, nameservers, times, failure_count,
                    dns_name, q, results, order, table, j, log, rev_failed, latencies >>

\* Lines 56-58: more than 2 failures end the loop.
CheckAbort ==
    /\ pc = "check"
    /\ IF failure_count > 2
       THEN /\ aborted' = TRUE
            /\ pc' = "stats"
       ELSE /\ aborted' = aborted
            /\ pc' = "range"
    /\ UNCHANGED << servers, num_queries, idx, nameservers, times, failure_count,
                    dns_name, q, results, order, table, j, log, rev_failed, latencies >>

\* A record that reports an aborted pass as failed whatever it collected.
RecordFailedOnAbort(ts, name) ==
    IF ts # << >> /\ ~aborted
    THEN [times |-> ts, mean |-> Mean(ts),
          stdev |-> Sqrt(Variance(ts, Mean(ts))),
          name |-> name, error |-> FALSE]
    ELSE [name |-> name, error |-> TRUE]

\* Lines 60-77: the record of a pass.
Record(ts, name) ==
    IF ts # << >>
    THEN [times |-> ts, mean |-> Mean(ts),
          stdev |-> Sqrt(Variance(ts, Mean(ts))),
          name |-> name, error |-> FALSE]
    ELSE [name |-> name, error |-> TRUE]

\* results[key] = rec on a mapping that keeps only its first entry per run.
PutFirstOnly(m, key, rec) ==
    IF key \in DOMAIN m THEN m
    ELSE [k \in DOMAIN m \cup {key} |-> IF k = key THEN rec ELSE m[k]]

\* results[key] = rec
Put(m, key, rec) ==
    [k \in DOMAIN m \cup {key} |-> IF k = key THEN rec ELSE m[k]]

\* Lines 60-77: statistics and the write of results[server].
Stats ==
    /\ pc = "stats"
    /\ results' = Put(results, server, Record(times, dns_name))
    /\ order' = IF server \in DOMAIN results THEN order ELSE Append(order, server)
    /\ pc' = "for"
    /\ UNCHANGED << servers, num_queries, idx, nameservers, times, failure_count,
                    dns_name, q, table, j, log, rev_failed, aborted,
                    latencies >>

\* Line 79 and lines 154-155: the loop is over, results is returned and handed
\* to display_results.
Return ==
    /\ pc = "for"
    /\ idx = Len(servers)
    /\ pc' = "display"
    /\ UNCHANGED << servers, num_queries, idx, nameservers, times, failure_count,
                    dns_name, q, results, order, table, j, log, rev_failed, aborted,
                    latencies >>

----------------------------------------------------------------------------
\* display_results

\* A table cell is the sequence of the pieces its text is made of.
\* red_string: the text wrapped in red markup.
red_string(input) == << "[red]", input, "[/red]" >>

\* A cell given as plain text.
plain(text) == << text >>

\* data.get(key, default)
Get(data, key, default) == IF key \in DOMAIN data THEN data[key] ELSE default

\* Number of decimal digits of a natural number.
RECURSIVE Digits(_)
Digits(n) == IF n < 10 THEN 1 ELSE 1 + Digits(n \div 10)

\* f"{time: >3.0f}": no decimals, right-aligned in a field of width 3.
FormatTime(t) ==
    [pad |-> IF Digits(t) < 3 THEN 3 - Digits(t) ELSE 0, digits |-> t]

\* The non-negative rational r rounded to an integer, ties to even.
RoundHalfEven(r) ==
    LET fl  == r.num \div r.den
        rem == 2 * (r.num % r.den)
    IN  IF rem < r.den THEN fl
        ELSE IF rem > r.den THEN fl + 1
        ELSE IF fl % 2 = 0 THEN fl ELSE fl + 1

\* A power of two h with h * h * d > a.
RECURSIVE SqrtUpper(_, _, _)
SqrtUpper(h, a, d) == IF h * h * d > a THEN h ELSE SqrtUpper(2 * h, a, d)

\* The largest k with k * k * d <= a, by bisection of lo <= k < hi.
RECURSIVE FloorSqrt(_, _, _, _)
FloorSqrt(lo, hi, a, d) ==
    IF hi - lo <= 1 THEN lo
    ELSE LET mid == (lo + hi) \div 2
         IN  IF mid * mid * d <= a THEN FloorSqrt(mid, hi, a, d)
                                   ELSE FloorSqrt(lo, mid, a, d)

\* f"{x:.1f}" of a rational or of the square root of one: the number of tenths.
Format1(x) ==
    IF "sqrt_of" \in DOMAIN x
    THEN LET a == 400 * x.sqrt_of.num
             d == x.sqrt_of.den
             k == FloorSqrt(0, SqrtUpper(1, a, d), a, d)
         IN  [tenths |-> IF k % 2 = 0 THEN k \div 2
                         ELSE IF k * k * d = a /\ ((k + 1) \div 2) % 2 = 1
                              THEN (k - 1) \div 2
                              ELSE (k + 1) \div 2]
    ELSE [tenths |-> RoundHalfEven(Frac(10 * x.num, x.den))]

\* The literal the times column shows for a failed server.
ErrorMarker == "Error on query attempt"

\* A row that shows the error marker only when the error flag is clear.
RowInverted(key, data) ==
    LET name   == Get(data, "name", "Unknown")
        ts     == Get(data, "times", << >>)
        mean   == Get(data, "mean", FromInt(0))
        stddev == Get(data, "stdev", FromInt(0))
        error  == Get(data, "error", FALSE)
    IN  IF ~(ts = << >> \/ error)
        THEN << red_string(key), red_string(name), red_string(ErrorMarker),
                red_string(mean), red_string(stddev) >>
        ELSE << plain(key), plain(name),
                plain([i \in 1..Len(ts) |-> FormatTime(ts[i])]),
                plain(Format1(mean)), plain(Format1(stddev)) >>

\* Lines 109-126: the row of one entry of the mapping.
Row(key, data) ==
    LET name   == Get(data, "name", "Unknown")
        ts     == Get(data, "times", << >>)
        mean   == Get(data, "mean", FromInt(0))
        stddev == Get(data, "stdev", FromInt(0))
        error  == Get(data, "error", FALSE)
    IN  IF ts = << >> \/ error
        THEN << red_string(key), red_string(name), red_string(ErrorMarker),
                red_string(mean), red_string(stddev) >>
        ELSE << plain(key), plain(name),
                plain([i \in 1..Len(ts) |-> FormatTime(ts[i])]),
                plain(Format1(mean)), plain(Format1(stddev)) >>

\* Lines 108-126: one iteration of results.items().
AddRow ==
    /\ pc = "display"
    /\ j < Len(order)
    /\ table' = Append(table, Row(order[j + 1], results[order[j + 1]]))
    /\ j' = j + 1
    /\ UNCHANGED << servers, num_queries, pc, idx, nameservers, times,
                    failure_count, dns_name, q, results, order, log, rev_failed,
                    aborted, latencies >>

\* Line 129: the table is handed to the console.
ShowTable ==
    /\ pc = "display"
    /\ j = Len(order)
    /\ pc' = "done"
    /\ UNCHANGED << servers, num_queries, idx, nameservers, times, failure_count,
                    dns_name, q, results, order, table, j, log, rev_failed, aborted,
                    latencies >>

----------------------------------------------------------------------------

Next ==
    \/ StartPass
    \/ ReverseLookupOk
    \/ ReverseLookupFails
    \/ RangeNext
    \/ QueryOk
    \/ QueryFails
    \/ CheckAbort
    \/ Stats
    \/ Return
    \/ AddRow
    \/ ShowTable

Spec == Init /\ [][Next]_vars

\* The runs on which the statistics are checked: one server, and every
\* combination of the elapsed times.
InitStats ==
    /\ servers \in [1..1 -> Addresses]
    /\ num_queries \in 1..MaxQueries
    /\ pc = "for"
    /\ idx = 0
    /\ nameservers = << >>
    /\ times = << >>
    /\ failure_count = 0
    /\ dns_name = ""
    /\ q = 0
    /\ results = << >>
    /\ order = << >>
    /\ table = << >>
    /\ j = 0
    /\ log = << >>
    /\ rev_failed = FALSE
    /\ aborted = FALSE
    /\ latencies = Elapsed

SpecStats == InitStats /\ [][Next]_vars

----------------------------------------------------------------------------
\* Vocabulary of the properties.

Range(s) == { s[i] : i \in 1..Len(s) }

\* The positions of the failed forward queries of the current pass.
FailedAt == { i \in 1..Len(log) : ~log[i] }

\* The query loop of pass idx has ended and its locals are still in place.
PassOver == idx >= 1 /\ pc \in { "stats", "for", "display", "done" }

\* Pass idx has written its record and its locals are still in place.
PassWritten == idx >= 1 /\ pc \in { "for", "display", "done" }

\* benchmark_dns_servers has returned its mapping.
Returned == pc \in { "display", "done" }

\* The key a table row was made for, and whether it shows the error marker.
RowKey(row) == IF Len(row[1]) = 3 THEN row[1][2] ELSE row[1][1]

RowHasMarker(row) == row[3] = << "[red]", ErrorMarker, "[/red]" >>

----------------------------------------------------------------------------
\* C1: every record of the mapping is failed exactly when it has no samples,
\* and the record a pass writes is failed exactly when none of the forward
\* queries of that pass succeeded; an aborted pass that collected a sample is
\* not failed.
C1_FailedIffNoSamples ==
    /\ \A k \in DOMAIN results :
         results[k].error <=> (Get(results[k], "times", << >>) = << >>)
    /\ PassWritten =>
         /\ results[server].error <=> (\A i \in 1..Len(log) : ~log[i])
         /\ Get(results[server], "times", << >>) = times

C1_Witness ==
    /\ PassWritten
    /\ aborted
    /\ failure_count = 3
    /\ times # << >>
    /\ results[server].error = FALSE

\* C2: no exception escapes benchmark_dns_servers: the call never ends in an
\* error state, whatever the server addresses are.
C2_NoExceptionEscapes == pc # "raised"

\* C3: every pass starts with a failure counter of 0 and no query issued,
\* and once the run is over the loop has reached every server of the input
\* list: no server is left without its pass because of what happened to an
\* earlier one.
C3_EveryServerGetsItsPass ==
    /\ pc = "reverse" => failure_count = 0 /\ q = 0
    /\ pc \in { "raised", "display", "done" } => idx = Len(servers)

\* C4: once the failure counter is 3, the last forward query issued is the
\* failed one that brought it there (control is never again where a query is
\* issued), and fewer than num_queries samples were recorded.
C4_AbortStopsQueries ==
    (idx >= 1 /\ pc # "raised" /\ failure_count >= 3) =>
        /\ pc \in { "check", "stats", "for", "display", "done" }
        /\ q = Len(log)
        /\ ~log[q]
        /\ failure_count = 3
        /\ pc # "check" => aborted
        /\ Len(times) < num_queries
        /\ PassWritten => Len(Get(results[server], "times", << >>)) < num_queries

C4_Witness ==
    /\ PassWritten
    /\ failure_count = 3
    /\ q < num_queries
    /\ times # << >>

\* C5 as stated: at most num_queries samples, and after an abort at most
\* num_queries minus the value of the failure counter (reverse-lookup failure
\* included).
C5_SamplesBoundedByCounter ==
    /\ Len(times) <= num_queries
    /\ \A k \in DOMAIN results : Len(Get(results[k], "times", << >>)) <= num_queries
    /\ (pc # "raised" /\ aborted) => Len(times) <= num_queries - failure_count

\* C5 as amended: at most num_queries samples, and after an abort at most
\* num_queries minus the number of failed forward queries, which is the
\* failure counter less one when the reverse lookup failed.
C5_SamplesBoundedByQueryFailures ==
    /\ Len(times) <= num_queries
    /\ \A k \in DOMAIN results : Len(Get(results[k], "times", << >>)) <= num_queries
    /\ (pc # "raised" /\ aborted) =>
         /\ Cardinality(FailedAt) = failure_count - (IF rev_failed THEN 1 ELSE 0)
         /\ Len(times) <= num_queries - Cardinality(FailedAt)
         /\ PassWritten =>
              Len(Get(results[server], "times", << >>))
                  <= num_queries - Cardinality(FailedAt)

C5_Witness ==
    /\ PassWritten
    /\ aborted
    /\ rev_failed
    /\ times # << >>
    /\ Len(times) = num_queries - 2

\* C6: on return the mapping has exactly the distinct addresses of the input
\* as keys, each once; and every pass replaces the entry of its own server by
\* its own record and leaves the other entries alone, so that the entry of a
\* repeated address is the record of the last pass made for it.
C6_OneEntryPerServer ==
    /\ [](Returned =>
            /\ DOMAIN results = Range(servers)
            /\ Range(order) = DOMAIN results
            /\ Len(order) = Cardinality(DOMAIN results))
    /\ [][pc = "stats" =>
            /\ DOMAIN results' = DOMAIN results \cup { server }
            /\ results'[server].name = dns_name
            /\ Get(results'[server], "times", << >>) = times
            /\ results'[server].error = (times = << >>)
            /\ \A k \in DOMAIN results \ { server } : results'[k] = results[k]]_vars

C6_Witness ==
    /\ Returned
    /\ Len(servers) = 2
    /\ servers[1] = servers[2]
    /\ DOMAIN results = { servers[1] }
    /\ results[servers[1]].error = FALSE
    /\ rev_failed

\* C7: for a record with samples, mean * N is the sum of its samples, and the
\* square of stdev times N^3 is the sum of the squares of (N * x - sum), that
\* is, the squared deviations from the mean divided by N; the samples are
\* those of the pass; [10, 20, 30] gives mean 20 and variance 200/3.
C7_MeanAndPopulationStdev ==
    /\ \A k \in DOMAIN results :
         LET r == results[k]
         IN  ~r.error =>
               LET ts == r.times
                   n  == Len(ts)
                   sm == Sum(ts)
                   sq == Sum([i \in 1..n |-> (n * ts[i] - sm) * (n * ts[i] - sm)])
                   v  == r.stdev.sqrt_of
               IN  /\ n >= 1
                   /\ r.mean.num * n = sm * r.mean.den
                   /\ v.num * n * n * n = sq * v.den
                   /\ ts = << 10, 20, 30 >> =>
                        /\ r.mean = [num |-> 20, den |-> 1]
                        /\ v = [num |-> 200, den |-> 3]
    /\ (PassWritten /\ times # << >>) => results[server].times = times

C7_Witness ==
    /\ PassWritten
    /\ results[server].error = FALSE
    /\ results[server].times = << 10, 20, 30 >>
    /\ results[server].stdev = [sqrt_of |-> [num |-> 200, den |-> 3]]

\* C8: the table has one row per entry rendered so far, in the iteration
\* order of the mapping; a row shows the error marker exactly when its entry
\* is failed or without samples; when the table is shown every server of the
\* input has exactly one row; and display_results does not change the mapping.
C8_OneRowPerEntry ==
    /\ [](pc \in { "display", "done" } =>
            /\ Len(table) = j
            /\ j <= Len(order)
            /\ \A i \in 1..Len(table) :
                 /\ RowKey(table[i]) = order[i]
                 /\ RowHasMarker(table[i]) <=>
                      (results[order[i]].error
                         \/ Get(results[order[i]], "times", << >>) = << >>)
            /\ pc = "done" =>
                 \A a \in Range(servers) :
                   Cardinality({ i \in 1..Len(table) : RowKey(table[i]) = a }) = 1)
    /\ [][pc = "display" => results' = results /\ order' = order]_vars

C8_Witness ==
    /\ pc = "done"
    /\ Len(table) = 2
    /\ RowHasMarker(table[1])
    /\ ~RowHasMarker(table[2])
    /\ RowKey(table[2]) = servers[2]

\* C9: a failed reverse lookup gives the name "Unknown" and a counter of 1;
\* the counter is the number of failures of the pass, reverse lookup included,
\* and never exceeds 3; when the loop has ended the number of forward queries
\* issued is num_queries, or the position of the 2nd (reverse lookup failed)
\* or 3rd (reverse lookup succeeded) failed query when that comes first.
C9_ReverseFailureCounts ==
    (idx >= 1 /\ pc # "raised") =>
        LET threshold == IF rev_failed THEN 2 ELSE 3
        IN  /\ (pc # "reverse" /\ rev_failed) => dns_name = "Unknown"
            /\ (pc = "range" /\ q = 0) => failure_count = (IF rev_failed THEN 1 ELSE 0)
            /\ failure_count = Cardinality(FailedAt) + (IF rev_failed THEN 1 ELSE 0)
            /\ failure_count <= 3
            /\ PassOver =>
                 IF Cardinality(FailedAt) >= threshold
                 THEN /\ Len(log) \in FailedAt
                      /\ Cardinality(FailedAt) = threshold
                      /\ Len(log) <= num_queries
                      /\ aborted
                 ELSE /\ Len(log) = num_queries
                      /\ ~aborted

C9_Witness ==
    /\ PassOver
    /\ rev_failed
    /\ aborted
    /\ Len(log) = 3
    /\ log[1]
    /\ Len(log) < num_queries

\* C10 as stated: a failed record means that the reverse lookup and all
\* forward queries failed, or that the loop was aborted by the threshold.
C10_FailedMeansAllFailedOrAborted ==
    (PassWritten /\ results[server].error) =>
        \/ rev_failed /\ (\A i \in 1..Len(log) : ~log[i])
        \/ aborted

\* C10 as amended: a failed record means that every forward query issued
\* failed, and that either the loop was aborted by the threshold or all
\* num_queries queries were issued with fewer than 3 failures in total, which
\* needs num_queries <= 2 and does not need the reverse lookup to have failed.
C10_FailedMeansAllQueriesFailed ==
    (PassWritten /\ results[server].error) =>
        /\ \A i \in 1..Len(log) : ~log[i]
        /\ \/ aborted
           \/ /\ Len(log) = num_queries
              /\ failure_count <= 2
              /\ num_queries <= 2
        /\ num_queries >= 3 => aborted

C10_Witness ==
    /\ PassWritten
    /\ results[server].error
    /\ ~aborted
    /\ ~rev_failed
    /\ num_queries = 2

====
